---------------------------- MODULE Spec2Model ----------------------------
(***************************************************************************)
(* Model of main.py of Majsoul-Data: the version check, the generation of  *)
(* parsed.proto from the schemas of lqc.lqbin, its compilation by protoc,  *)
(* and the export of every data block to data/<ClassName>.json.            *)
(*                                                                         *)
(* Text is a sequence of one-character strings, a byte string a sequence   *)
(* of 0..255.  The protobuf runtime and protoc are modelled by what they   *)
(* do on the calls main.py makes (proto3 wire format, proto3 defaults).    *)
(***************************************************************************)
EXTENDS Integers, Sequences, FiniteSets, TLC

VARIABLES
    pc,           \* position of main(): see the actions below
    liveVersion,  \* version.json served by the game server
    versionFile,  \* content of the local version.json
    schemas,      \* config_table.schemas of the downloaded lqc.lqbin
    parsedPb2,    \* file parsed_pb2.py: the compiled classes, or Absent
    klasses,      \* globals(): the classes loaded from parsed_pb2.py
    nBlocks,      \* data blocks of config_table.datas consumed so far
    block,        \* the data block of the current iteration of line 101
    files,        \* data/*.json touched by this run: class_name -> state
    sink,         \* the last json.dump: class_name, data block, json_data
    stage,        \* codec harness: position
    table,        \* codec harness: the sheet whose class is exercised
    given,        \* codec harness: what was encoded
    wire,         \* codec harness: the encoded row(s)
    decoded       \* codec harness: the decoded row dict(s)

vars == <<pc, liveVersion, versionFile, schemas, parsedPb2, klasses, nBlocks,
          block, files, sink, stage, table, given, wire, decoded>>

runVars == <<pc, liveVersion, versionFile, schemas, parsedPb2, klasses,
             nBlocks, block, files, sink>>

codecVars == <<stage, table, given, wire, decoded>>

-----------------------------------------------------------------------------
(* Bounds of the model *)

\* rows per data block
MaxRows == 2
\* data blocks per bundle
MaxBlocks == 2
\* elements of a repeated field in an encoded record
MaxVals == 2

-----------------------------------------------------------------------------
(* Text: str.split("_") and str.capitalize() of lines 74-75 and 102-103 *)

Upper(c) ==
    CASE c = "a" -> "A" [] c = "b" -> "B" [] c = "c" -> "C" [] OTHER -> c

Lower(c) ==
    CASE c = "A" -> "a" [] c = "B" -> "b" [] c = "C" -> "c" [] OTHER -> c

\* s.capitalize(): first character upper-cased, all the others lower-cased
Capitalize(s) ==
    [i \in 1..Len(s) |-> IF i = 1 THEN Upper(s[i]) ELSE Lower(s[i])]

\* s.split("_"): the segments between underscores, empty ones included
RECURSIVE SplitUnderscore(_, _)
SplitUnderscore(s, cur) ==
    IF s = <<>> THEN <<cur>>
    ELSE IF Head(s) = "_" THEN <<cur>> \o SplitUnderscore(Tail(s), <<>>)
    ELSE SplitUnderscore(Tail(s), Append(cur, Head(s)))

RECURSIVE JoinAll(_)
JoinAll(segs) ==
    IF segs = <<>> THEN <<>> ELSE Head(segs) \o JoinAll(Tail(segs))

\* class_name of f"{name}_{sheet}"
ClassName(name, sheet) ==
    LET class_words == SplitUnderscore(name \o <<"_">> \o sheet, <<>>)
    IN  JoinAll([i \in 1..Len(class_words) |-> Capitalize(class_words[i])])

-----------------------------------------------------------------------------
(* protoc on parsed.proto (line 89) and the classes it generates *)

\* the scalar type names of a .proto file modelled here
ScalarTypes == {"int32", "uint32", "sint32", "bool", "float", "string"}

\* one "message" block per sheet, one field line per field (lines 72-79)
MessageOf(schema) ==
    [name   |-> ClassName(schema.name, schema.sheet),
     fields |-> [i \in 1..Len(schema.fields) |->
                   [name   |-> schema.fields[i].field_name,
                    type   |-> schema.fields[i].pb_type,
                    label  |-> IF schema.fields[i].array_length > 0
                               THEN "repeated" ELSE "optional",
                    number |-> schema.fields[i].pb_index]]]

NewProto(ss) == [i \in 1..Len(ss) |-> MessageOf(ss[i])]

\* protoc accepts the file: message names unique, and in every message the
\* field names and numbers unique, numbers >= 1, types known
ProtocAccepts(proto) ==
    /\ \A i, j \in 1..Len(proto) : proto[i].name = proto[j].name => i = j
    /\ \A m \in 1..Len(proto) :
         LET fs == proto[m].fields
         IN  /\ \A i, j \in 1..Len(fs) :
                    (fs[i].number = fs[j].number \/ fs[i].name = fs[j].name)
                        => i = j
             /\ \A i \in 1..Len(fs) :
                    fs[i].number >= 1 /\ fs[i].type \in ScalarTypes

\* parsed_pb2.py does not exist
Absent == [exists |-> FALSE, classes |-> <<>>]

-----------------------------------------------------------------------------
(* The wire format as klass.ParseFromString reads it (line 116) *)

Failed(pos) == [ok |-> FALSE, value |-> 0, next |-> pos]

\* a base-128 varint from b[pos]: its 7-bit groups, least significant first;
\* fails when the buffer ends first or a tenth byte still has its high bit
RECURSIVE VarintFrom(_, _, _)
VarintFrom(b, pos, limbs) ==
    IF pos > Len(b) \/ Len(limbs) = 10 THEN Failed(pos)
    ELSE IF b[pos] >= 128 THEN VarintFrom(b, pos + 1, Append(limbs, b[pos] - 128))
    ELSE [ok |-> TRUE, value |-> Append(limbs, b[pos]), next |-> pos + 1]

ReadVarint(b, pos) == VarintFrom(b, pos, <<>>)

Limb(l, i) == IF i <= Len(l) THEN l[i] ELSE 0

\* bits 0..30 and bit 31 of a varint
Low31(l) ==
    Limb(l, 1) + 128 * Limb(l, 2) + 16384 * Limb(l, 3) + 2097152 * Limb(l, 4)
        + 268435456 * (Limb(l, 5) % 8)

Bit31(l) == (Limb(l, 5) \div 8) % 2

\* AsInt32 with the sign bit dropped
AsInt32NoSign(l) == Low31(l)

\* the varint truncated to 32 bits, unsigned and signed
AsUInt32(l) == Low31(l) + Bit31(l) * 1073741824 * 2

AsInt32(l) == Low31(l) + Bit31(l) * (-1073741824) * 2

\* zig-zag: (n >> 1) ^ -(n & 1) on the low 32 bits
AsSInt32(l) ==
    LET half == (Low31(l) \div 2) + Bit31(l) * 1073741824
    IN  IF Low31(l) % 2 = 1 THEN (-half) - 1 ELSE half

AsBool(l) == \E i \in 1..Len(l) : l[i] # 0

\* four little-endian bytes as an IEEE-754 single: sign, exponent, mantissa
AsFloat(b, pos) ==
    [sign |-> b[pos + 3] \div 128,
     exp  |-> (b[pos + 3] % 128) * 2 + b[pos + 2] \div 128,
     mant |-> (b[pos + 2] % 128) * 65536 + b[pos + 1] * 256 + b[pos]]

IsCont(x) == x >= 128 /\ x < 192

\* length of the UTF-8 sequence a lead byte announces, 0 for no lead byte
Utf8Len(x) ==
    IF x < 128 THEN 1 ELSE IF x < 192 THEN 0 ELSE IF x < 224 THEN 2
    ELSE IF x < 240 THEN 3 ELSE IF x < 248 THEN 4 ELSE 0

CodePoint(b, pos, n) ==
    CASE n = 1 -> b[pos]
      [] n = 2 -> (b[pos] - 192) * 64 + (b[pos + 1] - 128)
      [] n = 3 -> (b[pos] - 224) * 4096 + (b[pos + 1] - 128) * 64 + (b[pos + 2] - 128)
      [] n = 4 -> (b[pos] - 240) * 262144 + (b[pos + 1] - 128) * 4096
                  + (b[pos + 2] - 128) * 64 + (b[pos + 3] - 128)

\* the least code point an n-byte sequence may encode
MinCodePoint(n) ==
    CASE n = 1 -> 0 [] n = 2 -> 128 [] n = 3 -> 2048 [] n = 4 -> 65536

ValidCodePoint(cp, n) ==
    cp >= MinCodePoint(n) /\ cp <= 1114111 /\ ~(cp >= 55296 /\ cp <= 57343)

\* UTF-8 to code points; <<-1>> when the bytes are not valid UTF-8
RECURSIVE Utf8From(_, _, _)
Utf8Step(b, pos, acc, n) ==
    IF n = 0 \/ pos + n - 1 > Len(b) THEN <<-1>>
    ELSE IF \E k \in 1..(n - 1) : ~IsCont(b[pos + k]) THEN <<-1>>
    ELSE IF ~ValidCodePoint(CodePoint(b, pos, n), n) THEN <<-1>>
    ELSE Utf8From(b, pos + n, Append(acc, CodePoint(b, pos, n)))

Utf8From(b, pos, acc) ==
    IF pos > Len(b) THEN acc ELSE Utf8Step(b, pos, acc, Utf8Len(b[pos]))

\* the wire kind a type is written with: 0 varint, 5 fixed32, 2 length-delimited
WireKindOf(type) ==
    CASE type = "string" -> 2 [] type = "float" -> 5 [] OTHER -> 0

Packable(type) == type # "string"

\* the bytes a length prefix n announces
Delimited(b, pos, n) ==
    IF ~n.ok \/ Len(n.value) > 5 THEN Failed(pos)
    ELSE IF n.next + AsUInt32(n.value) - 1 > Len(b) THEN Failed(pos)
    ELSE [ok |-> TRUE,
          value |-> SubSeq(b, n.next, n.next + AsUInt32(n.value) - 1),
          next |-> n.next + AsUInt32(n.value)]

\* a length prefix and the bytes it announces
ReadLengthDelimited(b, pos) == Delimited(b, pos, ReadVarint(b, pos))

\* a string from its bytes s, checked to be UTF-8
StringValue(pos, s, cps) ==
    IF cps # <<>> /\ cps[Len(cps)] = -1 THEN Failed(pos)
    ELSE [ok |-> TRUE, value |-> cps, next |-> s.next]

ReadString(pos, s) ==
    IF ~s.ok THEN Failed(pos) ELSE StringValue(pos, s, Utf8From(s.value, 1, <<>>))

\* a varint v as a value of the given type
VarintValue(type, pos, v) ==
    IF ~v.ok THEN Failed(pos)
    ELSE [ok |-> TRUE,
          value |-> CASE type = "int32"  -> AsInt32(v.value)
                      [] type = "uint32" -> AsUInt32(v.value)
                      [] type = "sint32" -> AsSInt32(v.value)
                      [] type = "bool"   -> AsBool(v.value),
          next |-> v.next]

\* one value of a field of the given type
ReadValue(type, b, pos) ==
    IF type = "string" THEN ReadString(pos, ReadLengthDelimited(b, pos))
    ELSE IF type = "float"
    THEN IF pos + 3 > Len(b) THEN Failed(pos)
         ELSE [ok |-> TRUE, value |-> AsFloat(b, pos), next |-> pos + 4]
    ELSE VarintValue(type, pos, ReadVarint(b, pos))

\* the elements of a packed run
RECURSIVE PackedFrom(_, _, _, _)
PackedNext(type, p, pos, acc, r) ==
    IF ~r.ok THEN Failed(pos)
    ELSE PackedFrom(type, p, r.next, Append(acc, r.value))

PackedFrom(type, p, pos, acc) ==
    IF pos > Len(p) THEN [ok |-> TRUE, value |-> acc, next |-> pos]
    ELSE PackedNext(type, p, pos, acc, ReadValue(type, p, pos))

PackedValue(pos, s, r) ==
    IF ~r.ok THEN Failed(pos)
    ELSE [ok |-> TRUE, value |-> r.value, next |-> s.next]

PackedRun(type, pos, s) ==
    IF ~s.ok THEN Failed(pos)
    ELSE PackedValue(pos, s, PackedFrom(type, s.value, 1, <<>>))

ReadPacked(type, b, pos) == PackedRun(type, pos, ReadLengthDelimited(b, pos))

\* a varint t as a tag: field number and wire kind
TagValue(pos, t) ==
    IF ~t.ok \/ Len(t.value) > 5 THEN Failed(pos)
    ELSE [ok |-> TRUE,
          value |-> [number |-> AsUInt32(t.value) \div 8,
                     kind   |-> AsUInt32(t.value) % 8],
          next |-> t.next]

ReadTag(b, pos) == TagValue(pos, ReadVarint(b, pos))

Skipped(pos, r) ==
    IF r.ok THEN [ok |-> TRUE, value |-> 0, next |-> r.next] ELSE Failed(pos)

\* skip one value of an undeclared field by its wire kind
RECURSIVE Skip(_, _, _, _)
RECURSIVE SkipGroup(_, _, _)
\* Skip that passes over a length prefix and not over the bytes it announces
SkipPrefixOnly(kind, number, b, pos) ==
    CASE kind = 0 -> Skipped(pos, ReadVarint(b, pos))
      [] kind = 1 -> IF pos + 7 > Len(b) THEN Failed(pos)
                     ELSE [ok |-> TRUE, value |-> 0, next |-> pos + 8]
      [] kind = 2 -> Skipped(pos, ReadVarint(b, pos))
      [] kind = 3 -> SkipGroup(number, b, pos)
      [] kind = 5 -> IF pos + 3 > Len(b) THEN Failed(pos)
                     ELSE [ok |-> TRUE, value |-> 0, next |-> pos + 4]
      [] OTHER -> Failed(pos)

Skip(kind, number, b, pos) ==
    CASE kind = 0 -> Skipped(pos, ReadVarint(b, pos))
      [] kind = 1 -> IF pos + 7 > Len(b) THEN Failed(pos)
                     ELSE [ok |-> TRUE, value |-> 0, next |-> pos + 8]
      [] kind = 2 -> Skipped(pos, ReadLengthDelimited(b, pos))
      [] kind = 3 -> SkipGroup(number, b, pos)
      [] kind = 5 -> IF pos + 3 > Len(b) THEN Failed(pos)
                     ELSE [ok |-> TRUE, value |-> 0, next |-> pos + 4]
      [] OTHER -> Failed(pos)

GroupNext(number, b, pos, s) ==
    IF ~s.ok THEN Failed(pos) ELSE SkipGroup(number, b, s.next)

GroupStep(number, b, pos, t) ==
    IF ~t.ok THEN Failed(pos)
    ELSE IF t.value.number = 0 THEN Failed(pos)
    ELSE IF t.value.kind = 4
    THEN IF t.value.number = number
         THEN [ok |-> TRUE, value |-> 0, next |-> t.next]
         ELSE Failed(pos)
    ELSE GroupNext(number, b, pos, Skip(t.value.kind, t.value.number, b, t.next))

SkipGroup(number, b, pos) == GroupStep(number, b, pos, ReadTag(b, pos))

\* the proto3 default of a field
DefaultOf(fd) ==
    IF fd.label = "repeated" THEN <<>>
    ELSE CASE fd.type = "string" -> <<>>
           [] fd.type = "bool"   -> FALSE
           [] fd.type = "float"  -> [sign |-> 0, exp |-> 0, mant |-> 0]
           [] OTHER -> 0

\* klass(): no field set, every field at its default
NewMessage(fields) ==
    [i \in 1..Len(fields) |-> [present |-> FALSE, value |-> DefaultOf(fields[i])]]

\* position of the field with this number in the class, 0 when undeclared
FieldIndex(fields, number) ==
    IF \E i \in 1..Len(fields) : fields[i].number = number
    THEN CHOOSE i \in 1..Len(fields) : fields[i].number = number
    ELSE 0

Store(msg, i, fd, v) ==
    [msg EXCEPT ![i] = [present |-> TRUE,
                        value |-> IF fd.label = "repeated"
                                  THEN Append(msg[i].value, v) ELSE v]]

Extend(msg, i, vs) ==
    [msg EXCEPT ![i] = [present |-> TRUE, value |-> msg[i].value \o vs]]

ParseError == [ok |-> FALSE, msg |-> <<>>]

\* the tag loop of ParseFromString
RECURSIVE ParseLoop(_, _, _, _)

\* a value of declared field i, written with the field's own wire kind
ParseStored(fields, b, msg, i, r) ==
    IF ~r.ok THEN ParseError
    ELSE ParseLoop(fields, b, r.next, Store(msg, i, fields[i], r.value))

\* a packed run of declared repeated field i
ParseExtended(fields, b, msg, i, r) ==
    IF ~r.ok THEN ParseError
    ELSE ParseLoop(fields, b, r.next, Extend(msg, i, r.value))

\* anything else is kept aside as an unknown field
ParseSkipped(fields, b, msg, s) ==
    IF ~s.ok THEN ParseError ELSE ParseLoop(fields, b, s.next, msg)

\* ParseField that takes a repeated field one tag per element only
ParseFieldUnpackedOnly(fields, b, msg, number, kind, next, i) ==
    IF i # 0 /\ kind = WireKindOf(fields[i].type)
    THEN ParseStored(fields, b, msg, i, ReadValue(fields[i].type, b, next))
    ELSE ParseSkipped(fields, b, msg, Skip(kind, number, b, next))

\* dispatch on the tag (number, kind) read up to next; i is the position of
\* the field with that number, 0 when the class declares none
ParseField(fields, b, msg, number, kind, next, i) ==
    IF i # 0 /\ kind = WireKindOf(fields[i].type)
    THEN ParseStored(fields, b, msg, i, ReadValue(fields[i].type, b, next))
    ELSE IF i # 0 /\ kind = 2 /\ fields[i].label = "repeated"
                  /\ Packable(fields[i].type)
    THEN ParseExtended(fields, b, msg, i, ReadPacked(fields[i].type, b, next))
    ELSE ParseSkipped(fields, b, msg, Skip(kind, number, b, next))

ParseTag(fields, b, msg, t) ==
    IF ~t.ok THEN ParseError
    ELSE IF t.value.number = 0 THEN ParseError
    ELSE ParseField(fields, b, msg, t.value.number, t.value.kind, t.next,
                    FieldIndex(fields, t.value.number))

ParseLoop(fields, b, pos, msg) ==
    IF pos > Len(b) THEN [ok |-> TRUE, msg |-> msg]
    ELSE ParseTag(fields, b, msg, ReadTag(b, pos))

\* field = klass(); field.ParseFromString(field_msg)
ParseFromString(fields, field_msg) ==
    ParseLoop(fields, field_msg, 1, NewMessage(fields))

-----------------------------------------------------------------------------
(* The row dict of lines 117-125 *)

\* HasAttr that holds of the fields the row set only
HasAttrOnlySet(fields, msg, i) == msg[i].present

\* hasattr(field, name): a message has an attribute for every declared field
HasAttr(fields, msg, i) == \E j \in 1..Len(fields) : fields[j].name = fields[i].name

\* one entry per descriptor field, in descriptor order
RowDict(fields, msg) ==
    [i \in 1..Len(fields) |->
        IF HasAttr(fields, msg, i)
        THEN [name |-> fields[i].name, none |-> FALSE, value |-> msg[i].value]
        ELSE [name |-> fields[i].name, none |-> TRUE, value |-> 0]]

-----------------------------------------------------------------------------
(* Inputs: what the server may serve *)

Versions == {"0.11.1", "0.11.2"}

NameA  == <<"a">>
NameAB == <<"a", "_", "b">>
SheetC  == <<"c">>
SheetBC == <<"b", "_", "c">>

\* (schema.name, sheet.name) of the sheets served
Pairs == {<<NameAB, SheetC>>, <<NameA, SheetBC>>, <<NameA, SheetC>>}

Field(n, len, type, idx) ==
    [field_name |-> n, array_length |-> len, pb_type |-> type, pb_index |-> idx]

ItemFields    == <<Field("id", 0, "int32", 1), Field("tags", 1, "string", 2)>>
OldItemFields == <<Field("id", 0, "int32", 1)>>
DupFields     == <<Field("id", 0, "int32", 1), Field("tags", 1, "string", 1)>>
BadTypeFields == <<Field("id", 0, "int32", 1), Field("tags", 1, "varchar", 2)>>

Sheet(pair, fields) == [name |-> pair[1], sheet |-> pair[2], fields |-> fields]

\* config_table.schemas, flattened to its sheets in iteration order
SchemaCatalog ==
    { <<Sheet(<<NameA, SheetC>>, ItemFields)>>,
      <<Sheet(<<NameA, SheetC>>, OldItemFields)>>,
      <<Sheet(<<NameA, SheetBC>>, OldItemFields)>>,
      <<Sheet(<<NameAB, SheetC>>, ItemFields), Sheet(<<NameA, SheetC>>, OldItemFields)>>,
      <<Sheet(<<NameAB, SheetC>>, ItemFields), Sheet(<<NameA, SheetBC>>, OldItemFields)>>,
      <<Sheet(<<NameA, SheetC>>, DupFields)>>,
      <<Sheet(<<NameA, SheetC>>, BadTypeFields)>> }

\* id = 7, tags = ["a"]
RowFull == <<8, 7, 18, 1, 97>>
\* id = 9
RowIdOnly == <<8, 9>>
\* tags announces three bytes and one follows
RowTruncated == <<8, 7, 18, 3, 97>>

\* id = 7, then a tag of wire kind 7
RowBadKind == <<8, 7, 15, 0>>

RowCatalog == {RowFull, RowIdOnly, RowTruncated, RowBadKind}

SeqsUpTo(S, n) == UNION {[1..k -> S] : k \in 0..n}

\* config_table.datas is read one block at a time
DataBlocks ==
    {[table |-> p[1], sheet |-> p[2], data |-> rows] :
        p \in Pairs, rows \in SeqsUpTo(RowCatalog, MaxRows)}

ClassNames == {ClassName(p[1], p[2]) : p \in Pairs}

NoBlock == [table |-> <<>>, sheet |-> <<>>, data |-> <<>>]
NoSink  == [dumped |-> FALSE, class_name |-> <<>>, json_data |-> <<>>]
NoFiles == [c \in ClassNames |-> "untouched"]

-----------------------------------------------------------------------------
(* main() *)

\* lines 114-126: one row dict per row, appended in order; a row that fails
\* to parse raises out of the loop
RECURSIVE ExportRows(_, _, _)
\* ExportRow that puts the new row dict first
ExportRowPrepend(fields, rows, json_data, field) ==
    IF ~field.ok THEN [ok |-> FALSE, json_data |-> json_data]
    ELSE ExportRows(fields, Tail(rows), <<RowDict(fields, field.msg)>> \o json_data)

ExportRow(fields, rows, json_data, field) ==
    IF ~field.ok THEN [ok |-> FALSE, json_data |-> json_data]
    ELSE ExportRows(fields, Tail(rows), Append(json_data, RowDict(fields, field.msg)))

ExportRows(fields, rows, json_data) ==
    IF rows = <<>> THEN [ok |-> TRUE, json_data |-> json_data]
    ELSE ExportRow(fields, rows, json_data, ParseFromString(fields, Head(rows)))

HasClass(classes, class_name) ==
    \E i \in 1..Len(classes) : classes[i].name = class_name

\* globals()[class_name]
Klass(classes, class_name) ==
    classes[CHOOSE i \in 1..Len(classes) : classes[i].name = class_name]

\* lines 15-17: same version, exit(0)
NoUpdate ==
    /\ pc = "start"
    /\ versionFile = liveVersion
    /\ pc' = "noupdate"
    /\ UNCHANGED <<liveVersion, versionFile, schemas, parsedPb2, klasses,
                   nBlocks, block, files, sink>>
    /\ UNCHANGED codecVars

\* UpdateVersion that leaves version.json for the end of the run
UpdateVersionNotWritten ==
    /\ pc = "start"
    /\ versionFile # liveVersion
    /\ pc' = "locate"
    /\ UNCHANGED <<liveVersion, versionFile, schemas, parsedPb2, klasses,
                   nBlocks, block, files, sink>>
    /\ UNCHANGED codecVars

\* lines 18-21: new version, version.json overwritten at once
UpdateVersion ==
    /\ pc = "start"
    /\ versionFile # liveVersion
    /\ versionFile' = liveVersion
    /\ pc' = "locate"
    /\ UNCHANGED <<liveVersion, schemas, parsedPb2, klasses, nBlocks, block,
                   files, sink>>
    /\ UNCHANGED codecVars

\* lines 31-39: config.proto or lqc.lqbin not listed, exit(1)
NotFound ==
    /\ pc = "locate"
    /\ \E listed \in SUBSET {"config.proto", "lqc.lqbin"} :
          listed # {"config.proto", "lqc.lqbin"}
    /\ pc' = "notfound"
    /\ UNCHANGED <<liveVersion, versionFile, schemas, parsedPb2, klasses,
                   nBlocks, block, files, sink>>
    /\ UNCHANGED codecVars

\* lines 41-66: both listed, downloaded, lqc.lqbin parsed
Download ==
    /\ pc = "locate"
    /\ \E ss \in SchemaCatalog : schemas' = ss
    /\ pc' = "generate"
    /\ UNCHANGED <<liveVersion, versionFile, parsedPb2, klasses, nBlocks,
                   block, files, sink>>
    /\ UNCHANGED codecVars

\* lines 70-89: parsed.proto written and compiled; the result of protoc is
\* not looked at, and a rejected file leaves parsed_pb2.py as it was
GenerateProto ==
    /\ pc = "generate"
    /\ parsedPb2' = IF ProtocAccepts(NewProto(schemas))
                    THEN [exists |-> TRUE, classes |-> NewProto(schemas)]
                    ELSE parsedPb2
    /\ pc' = "load"
    /\ UNCHANGED <<liveVersion, versionFile, schemas, klasses, nBlocks, block,
                   files, sink>>
    /\ UNCHANGED codecVars

\* lines 91-98: parsed_pb2.py read and executed; open() raises when missing
LoadParsed ==
    /\ pc = "load"
    /\ IF parsedPb2.exists
       THEN pc' = "export" /\ klasses' = parsedPb2.classes
       ELSE pc' = "crashed" /\ UNCHANGED klasses
    /\ UNCHANGED <<liveVersion, versionFile, schemas, parsedPb2, nBlocks,
                   block, files, sink>>
    /\ UNCHANGED codecVars

\* lines 101-128: one iteration of the export loop.  globals()[class_name]
\* raises for a class that was not loaded; the file is opened for writing,
\* and so emptied, before the first row is parsed; "data" is a declared field
\* of the block, so the hasattr of line 111 holds; a row that does not parse
\* raises out of main()
ExportBlock ==
    /\ pc = "export"
    /\ nBlocks < MaxBlocks
    /\ \E data \in DataBlocks :
         LET class_name == ClassName(data.table, data.sheet)
         IN  /\ block' = data
             /\ nBlocks' = nBlocks + 1
             /\ IF ~HasClass(klasses, class_name)
                THEN pc' = "crashed" /\ sink' = NoSink /\ UNCHANGED files
                ELSE LET out == ExportRows(Klass(klasses, class_name).fields,
                                           data.data, <<>>)
                     IN  IF out.ok
                         THEN /\ pc' = "export"
                              /\ files' = [files EXCEPT ![class_name] = "dumped"]
                              /\ sink' = [dumped |-> TRUE, class_name |-> class_name,
                                          json_data |-> out.json_data]
                         ELSE /\ pc' = "crashed"
                              /\ files' = [files EXCEPT ![class_name] = "empty"]
                              /\ sink' = NoSink
    /\ UNCHANGED <<liveVersion, versionFile, schemas, parsedPb2, klasses>>
    /\ UNCHANGED codecVars

\* line 129: config_table.datas exhausted
ExportComplete ==
    /\ pc = "export"
    /\ pc' = "done"
    /\ UNCHANGED <<liveVersion, versionFile, schemas, parsedPb2, klasses,
                   nBlocks, block, files, sink>>
    /\ UNCHANGED codecVars

\* the script is started again; the server may have moved on
NextRun ==
    /\ pc \in {"noupdate", "notfound", "crashed", "done"}
    /\ pc' = "start"
    /\ liveVersion' \in Versions
    /\ schemas' = <<>>
    /\ klasses' = <<>>
    /\ nBlocks' = 0
    /\ block' = NoBlock
    /\ files' = NoFiles
    /\ sink' = NoSink
    /\ UNCHANGED <<versionFile, parsedPb2>>
    /\ UNCHANGED codecVars

-----------------------------------------------------------------------------
(* A companion encoder: the proto3 wire format written, to exercise the     *)
(* classes protoc generates on rows whose content is known                  *)

MinInt32 == (-1073741824) * 2

Int32Values  == {0, 7, -1, 300, MinInt32}
UInt32Values == {0, 7, 300, 2147483647}
SInt32Values == {0, 1, -1, -300}
FloatValues  == {[sign |-> 0, exp |-> 0, mant |-> 0],
                 [sign |-> 0, exp |-> 127, mant |-> 0],
                 [sign |-> 1, exp |-> 128, mant |-> 4194304]}
StringValues == {<<>>, <<97>>, <<233, 97>>, <<8364>>}

ValuesOf(type) ==
    CASE type = "int32"  -> Int32Values
      [] type = "uint32" -> UInt32Values
      [] type = "sint32" -> SInt32Values
      [] type = "bool"   -> BOOLEAN
      [] type = "float"  -> FloatValues
      [] type = "string" -> StringValues

\* base-128 digits of n >= 0, least significant first
RECURSIVE Limbs(_)
Limbs(n) == IF n < 128 THEN <<n>> ELSE <<n % 128>> \o Limbs(n \div 128)

\* the ten groups of a negative 32-bit value sign-extended to 64 bits
NegLimbs(v) ==
    LET low31 == (v + 1073741824) + 1073741824
    IN  <<low31 % 128, (low31 \div 128) % 128, (low31 \div 16384) % 128,
          (low31 \div 2097152) % 128, (low31 \div 268435456) + 120,
          127, 127, 127, 127, 1>>

VarintBytes(l) == [i \in 1..Len(l) |-> IF i < Len(l) THEN l[i] + 128 ELSE l[i]]

EncodeVarint(n) == VarintBytes(Limbs(n))

RECURSIVE Utf8Bytes(_)
Utf8Bytes(cps) ==
    IF cps = <<>> THEN <<>>
    ELSE (IF Head(cps) < 128 THEN <<Head(cps)>>
          ELSE IF Head(cps) < 2048
          THEN <<192 + (Head(cps) \div 64), 128 + (Head(cps) % 64)>>
          ELSE <<224 + (Head(cps) \div 4096), 128 + ((Head(cps) \div 64) % 64),
                 128 + (Head(cps) % 64)>>)
         \o Utf8Bytes(Tail(cps))

WithLength(bytes) == EncodeVarint(Len(bytes)) \o bytes

\* one value of the given type, without its tag
EncodeValue(type, v) ==
    CASE type = "int32"  -> VarintBytes(IF v < 0 THEN NegLimbs(v) ELSE Limbs(v))
      [] type = "uint32" -> EncodeVarint(v)
      [] type = "sint32" -> EncodeVarint(IF v < 0 THEN (-2) * v - 1 ELSE 2 * v)
      [] type = "bool"   -> IF v THEN <<1>> ELSE <<0>>
      [] type = "float"  -> <<v.mant % 256, (v.mant \div 256) % 256,
                              (v.exp % 2) * 128 + v.mant \div 65536,
                              v.sign * 128 + v.exp \div 2>>
      [] type = "string" -> WithLength(Utf8Bytes(v))

EncodeTag(number, kind) == EncodeVarint(number * 8 + kind)

\* one tag per element
RECURSIVE EncodeUnpacked(_, _)
EncodeUnpacked(fd, vs) ==
    IF vs = <<>> THEN <<>>
    ELSE EncodeTag(fd.number, WireKindOf(fd.type)) \o EncodeValue(fd.type, Head(vs))
         \o EncodeUnpacked(fd, Tail(vs))

RECURSIVE EncodeElements(_, _)
EncodeElements(type, vs) ==
    IF vs = <<>> THEN <<>>
    ELSE EncodeValue(type, Head(vs)) \o EncodeElements(type, Tail(vs))

\* one length-delimited run holding every element
EncodePacked(fd, vs) == EncodeTag(fd.number, 2) \o WithLength(EncodeElements(fd.type, vs))

\* a field of a record: a singular field at its default is not written, a
\* repeated one is written packed or unpacked as the encoder chooses
EncodeField(fd, v, packed) ==
    IF fd.label = "repeated"
    THEN IF v = <<>> THEN <<>>
         ELSE IF packed /\ Packable(fd.type) THEN EncodePacked(fd, v)
         ELSE EncodeUnpacked(fd, v)
    ELSE IF v = DefaultOf(fd) THEN <<>>
    ELSE EncodeTag(fd.number, WireKindOf(fd.type)) \o EncodeValue(fd.type, v)

RECURSIVE EncodeFrom(_, _, _, _)
EncodeFrom(fields, record, packed, i) ==
    IF i > Len(fields) THEN <<>>
    ELSE EncodeField(fields[i], record[i], packed)
         \o EncodeFrom(fields, record, packed, i + 1)

EncodeRecord(fields, record, packed) == EncodeFrom(fields, record, packed, 1)

\* values outside any class of the catalog: field 7 as a varint, a fixed64,
\* a length-delimited span, a fixed32 and a group, field 9 as a varint
UnknownValues ==
    { EncodeTag(7, 0) \o <<1>>,
      EncodeTag(7, 1) \o <<8, 5, 8, 5, 8, 5, 8, 5>>,
      EncodeTag(7, 2) \o <<2, 8, 5>>,
      EncodeTag(7, 5) \o <<8, 5, 8, 5>>,
      EncodeTag(7, 3) \o <<8, 5>> \o EncodeTag(7, 4),
      EncodeTag(9, 0) \o <<172, 2>> }

\* rows that are not the encoding of anything: cut short, a varint of
\* eleven bytes, wire kind 7, field number 0, a string that is not UTF-8
BrokenRows ==
    { <<8>>, <<8, 128>>, <<18, 3, 97>>, <<13, 0, 0>>,
      <<8, 128, 128, 128, 128, 128, 128, 128, 128, 128, 128, 1>>,
      <<15, 0>>, <<0, 0>>, <<10, 1, 255>> }

\* the sheets whose classes are exercised: one field of every type, singular
\* and repeated, and two fields declared in either order
CodecTables ==
    {<<Field("v", len, type, 1)>> : len \in {0, 1}, type \in ScalarTypes}
        \cup {ItemFields,
              <<Field("tags", 1, "string", 2), Field("id", 0, "int32", 1)>>}

\* the class protoc generates for a sheet with these fields
ClassFields(fields) == MessageOf(Sheet(<<NameA, SheetC>>, fields)).fields

FieldValues(fd) ==
    IF fd.label = "repeated" THEN SeqsUpTo(ValuesOf(fd.type), MaxVals)
    ELSE ValuesOf(fd.type)

\* every record over the fields of a class of one or two fields
Records(fields) ==
    IF Len(fields) = 1 THEN {<<v>> : v \in FieldValues(fields[1])}
    ELSE {<<v, w>> : v \in FieldValues(fields[1]), w \in FieldValues(fields[2])}

RECURSIVE Concat(_)
Concat(ss) == IF ss = <<>> THEN <<>> ELSE Head(ss) \o Concat(Tail(ss))

\* field.ParseFromString(row) and the row dict built from it
DecodeRow(fields, row) ==
    LET field == ParseFromString(fields, row)
    IN  IF field.ok
        THEN [ok |-> TRUE, row |-> RowDict(fields, field.msg),
              set |-> [i \in 1..Len(fields) |-> field.msg[i].present]]
        ELSE [ok |-> FALSE, row |-> <<>>, set |-> <<>>]

PickTable ==
    /\ stage \in {"idle", "decoded"}
    /\ table' \in CodecTables
    /\ stage' = "picked"
    /\ given' = <<>> /\ wire' = <<>> /\ decoded' = <<>>
    /\ UNCHANGED runVars

\* a record written by the encoder
EncodeARecord ==
    /\ stage = "picked"
    /\ \E record \in Records(ClassFields(table)), packed \in BOOLEAN :
         /\ given' = [kind |-> "record", record |-> record]
         /\ wire' = <<EncodeRecord(ClassFields(table), record, packed)>>
    /\ stage' = "encoded"
    /\ UNCHANGED <<table, decoded>>
    /\ UNCHANGED runVars

\* a row of values the class does not declare
EncodeUnknown ==
    /\ stage = "picked"
    /\ \E n \in 1..MaxVals : \E us \in [1..n -> UnknownValues] :
         /\ given' = [kind |-> "unknown", record |-> <<>>]
         /\ wire' = <<Concat(us)>>
    /\ stage' = "encoded"
    /\ UNCHANGED <<table, decoded>>
    /\ UNCHANGED runVars

\* the same values of a one-field numeric class as one packed run and as one
\* tag per value
EncodeBothWays ==
    /\ stage = "picked"
    /\ Len(table) = 1
    /\ Packable(table[1].pb_type)
    /\ \E vs \in SeqsUpTo(ValuesOf(table[1].pb_type), MaxVals) :
         /\ given' = [kind |-> "both", record |-> vs]
         /\ wire' = <<EncodePacked(ClassFields(table)[1], vs),
                      EncodeUnpacked(ClassFields(table)[1], vs)>>
    /\ stage' = "encoded"
    /\ UNCHANGED <<table, decoded>>
    /\ UNCHANGED runVars

\* a row that is not well-formed
TakeBroken ==
    /\ stage = "picked"
    /\ \E row \in BrokenRows :
         /\ given' = [kind |-> "broken", record |-> <<>>]
         /\ wire' = <<row>>
    /\ stage' = "encoded"
    /\ UNCHANGED <<table, decoded>>
    /\ UNCHANGED runVars

\* lines 115-126 on every row of wire
Decode ==
    /\ stage = "encoded"
    /\ decoded' = [k \in 1..Len(wire) |-> DecodeRow(ClassFields(table), wire[k])]
    /\ stage' = "decoded"
    /\ UNCHANGED <<table, given, wire>>
    /\ UNCHANGED runVars

RunIdle ==
    /\ pc = "idle" /\ liveVersion = "0.11.1" /\ versionFile = "0.11.1"
    /\ schemas = <<>> /\ parsedPb2 = Absent /\ klasses = <<>> /\ nBlocks = 0
    /\ block = NoBlock /\ files = NoFiles /\ sink = NoSink

InitCodec ==
    /\ stage = "idle" /\ table = <<>> /\ given = <<>> /\ wire = <<>>
    /\ decoded = <<>>
    /\ RunIdle

NextCodec ==
    \/ PickTable
    \/ EncodeARecord
    \/ EncodeUnknown
    \/ EncodeBothWays
    \/ TakeBroken
    \/ Decode

SpecCodec == InitCodec /\ [][NextCodec]_vars

CodecIdle ==
    /\ stage = "idle" /\ table = <<>> /\ given = <<>> /\ wire = <<>>
    /\ decoded = <<>>

Init ==
    /\ pc = "start"
    /\ liveVersion \in Versions
    /\ versionFile \in Versions
    /\ schemas = <<>>
    /\ parsedPb2 = Absent
    /\ klasses = <<>>
    /\ nBlocks = 0
    /\ block = NoBlock
    /\ files = NoFiles
    /\ sink = NoSink
    /\ CodecIdle

Next ==
    \/ NoUpdate
    \/ UpdateVersion
    \/ NotFound
    \/ Download
    \/ GenerateProto
    \/ LoadParsed
    \/ ExportBlock
    \/ ExportComplete
    \/ NextRun

Spec == Init /\ [][Next]_vars

-----------------------------------------------------------------------------
(* Properties *)

Stopped == {"notfound", "crashed", "done"}

PastUpdate == {"locate", "generate", "load", "export"} \cup Stopped

\* the class the current data block is decoded against
BlockClass == ClassName(block.table, block.sheet)

\* the row dicts of the rows that parse, in row order
RECURSIVE WellFormedRecords(_, _)
WellFormedRecords(fields, rows) ==
    IF rows = <<>> THEN <<>>
    ELSE (IF ParseFromString(fields, Head(rows)).ok
          THEN <<RowDict(fields, ParseFromString(fields, Head(rows)).msg)>>
          ELSE <<>>)
         \o WellFormedRecords(fields, Tail(rows))

\* C1: a row that fails to decode is skipped and the rows after it are still
\* decoded: once a data block whose class is loaded has been taken up, the
\* run has not been aborted and the records of all its well-formed rows have
\* been written.
C1_CorruptRowSkipped ==
    (nBlocks > 0 /\ HasClass(klasses, BlockClass)) =>
        /\ pc # "crashed"
        /\ sink.dumped
        /\ sink.json_data =
               WellFormedRecords(Klass(klasses, BlockClass).fields, block.data)

\* the default the type of a declared field stands for
TypeDefault(f) ==
    IF f.array_length > 0 THEN <<>>
    ELSE CASE f.pb_type = "string" -> <<>>
           [] f.pb_type = "bool"   -> FALSE
           [] f.pb_type = "float"  -> [sign |-> 0, exp |-> 0, mant |-> 0]
           [] OTHER -> 0

\* C2: every decoded record has exactly one entry per field of the table, in
\* the order of table.fields, none of them None, and a field the row does
\* not set holds the default of its type.
C2_RecordShape ==
    stage = "decoded" =>
        \A k \in 1..Len(decoded) :
            decoded[k].ok =>
                /\ Len(decoded[k].row) = Len(table)
                /\ \A i \in 1..Len(table) :
                     /\ decoded[k].row[i].name = table[i].field_name
                     /\ ~decoded[k].row[i].none
                     /\ ~decoded[k].set[i] =>
                            decoded[k].row[i].value = TypeDefault(table[i])

\* a record of the two-field sheet whose row sets id and leaves tags out
C2_Witness ==
    /\ stage = "decoded"
    /\ table = ItemFields
    /\ given.kind = "record"
    /\ decoded[1].ok
    /\ decoded[1].set = <<TRUE, FALSE>>

\* C3: what is handed to json.dump for a data block is filed under the class
\* name of the block and holds one record per raw row, the i-th record being
\* the decode of the i-th row.
C3_OneRecordPerRowInOrder ==
    sink.dumped =>
        /\ sink.class_name = BlockClass
        /\ files[BlockClass] = "dumped"
        /\ Len(sink.json_data) = Len(block.data)
        /\ \A i \in 1..Len(block.data) :
             /\ ParseFromString(Klass(klasses, BlockClass).fields, block.data[i]).ok
             /\ sink.json_data[i] =
                    RowDict(Klass(klasses, BlockClass).fields,
                            ParseFromString(Klass(klasses, BlockClass).fields,
                                            block.data[i]).msg)

\* a block of two different rows has been written
C3_Witness ==
    /\ sink.dumped
    /\ Len(block.data) >= 2
    /\ block.data[1] = RowFull
    /\ block.data[2] = RowIdOnly

\* the record as the row dict of its table
ExpectedRow(fields, record) ==
    [i \in 1..Len(fields) |->
        [name |-> fields[i].field_name, none |-> FALSE, value |-> record[i]]]

\* C4: decoding the encoding of a record against its table gives the record
\* back, for every type, singular or repeated, packed or not.
C4_RoundTrip ==
    (stage = "decoded" /\ given.kind = "record") =>
        /\ decoded[1].ok
        /\ decoded[1].row = ExpectedRow(table, given.record)

\* a repeated int32 field holding a negative and a two-byte value
C4_Witness ==
    /\ stage = "decoded"
    /\ given.kind = "record"
    /\ table = <<Field("v", 1, "int32", 1)>>
    /\ given.record = << <<-1, 300>> >>
    /\ decoded[1].ok

HasCollidingIndex(ss) ==
    \E s \in 1..Len(ss) : \E i, j \in 1..Len(ss[s].fields) :
        i # j /\ ss[s].fields[i].pb_index = ss[s].fields[j].pb_index

\* C5: a schema with two fields of one index in a table is rejected when the
\* schema is loaded: the run stops there and decodes no row.
C5_CollidingIndexRejected ==
    HasCollidingIndex(schemas) =>
        \/ pc \in {"generate", "load"}
        \/ pc = "crashed" /\ nBlocks = 0

HasUnknownType(ss) ==
    \E s \in 1..Len(ss) : \E i \in 1..Len(ss[s].fields) :
        ss[s].fields[i].pb_type \notin ScalarTypes

\* C6: a field whose type name is not a recognized one is a hard error when
\* the schema is loaded: the run goes no further and no row is decoded with
\* the field left out or its type guessed.
C6_UnknownTypeIsHardError ==
    HasUnknownType(schemas) =>
        /\ pc \notin {"export", "done"}
        /\ ~sink.dumped
        /\ nBlocks = 0

\* C7: a row of undeclared fields only decodes, and to the record of the
\* defaults of the table.
C7_UnknownTagsGiveDefaults ==
    (stage = "decoded" /\ given.kind = "unknown") =>
        /\ decoded[1].ok
        /\ decoded[1].row =
               [i \in 1..Len(table) |->
                   [name |-> table[i].field_name, none |-> FALSE,
                    value |-> TypeDefault(table[i])]]

\* an undeclared length-delimited span whose bytes read as "field 1 = 5"
C7_Witness ==
    /\ stage = "decoded"
    /\ given.kind = "unknown"
    /\ table = ItemFields
    /\ wire = <<EncodeTag(7, 2) \o <<2, 8, 5>> \o EncodeTag(9, 0) \o <<172, 2>>>>
    /\ decoded[1].ok

\* C8 as stated: the packed run and the one-tag-per-value row of the same
\* values of a numeric field decode alike, whatever array_length says.
C8_PackedAcceptedWhateverTheFlag ==
    (stage = "decoded" /\ given.kind = "both") =>
        /\ decoded[1].ok
        /\ decoded[2].ok
        /\ decoded[1].row = decoded[2].row

\* C8, amended: for a field with array_length > 0 the packed run and the
\* one-tag-per-value row decode to the same sequence, the values in order;
\* for a field with array_length = 0 the packed run is passed over, the field
\* keeping its default, and of the single tags the last value stays.
C8_PackedEqualsUnpackedWhenRepeated ==
    (stage = "decoded" /\ given.kind = "both") =>
        /\ decoded[1].ok
        /\ decoded[2].ok
        /\ IF table[1].array_length > 0
           THEN /\ decoded[1].row = decoded[2].row
                /\ decoded[1].row[1].value = given.record
           ELSE /\ decoded[1].row[1].value = TypeDefault(table[1])
                /\ given.record # <<>> =>
                       decoded[2].row[1].value = given.record[Len(given.record)]

\* two different values of a repeated sint32 field, both ways
C8_Witness ==
    /\ stage = "decoded"
    /\ given.kind = "both"
    /\ table = <<Field("v", 1, "sint32", 1)>>
    /\ given.record = <<-300, 1>>
    /\ decoded[1].row = decoded[2].row

Declares(ss, t, sh) == \E i \in 1..Len(ss) : ss[i].name = t /\ ss[i].sheet = sh

\* C9: two declared sheets with different (name, sheet) never share a class
\* name, and a data block whose (table, sheet) is declared is decoded against
\* the fields declared for exactly that pair.
C9_TypeKeyLookupExact ==
    /\ \A i, j \in 1..Len(schemas) :
           <<schemas[i].name, schemas[i].sheet>> # <<schemas[j].name, schemas[j].sheet>>
               => MessageOf(schemas[i]).name # MessageOf(schemas[j]).name
    /\ (nBlocks > 0 /\ Declares(schemas, block.table, block.sheet)
            /\ HasClass(klasses, BlockClass)) =>
           \E i \in 1..Len(schemas) :
               /\ schemas[i].name = block.table
               /\ schemas[i].sheet = block.sheet
               /\ Klass(klasses, BlockClass).fields = MessageOf(schemas[i]).fields

\* C10: with the stored version equal to the live one the run ends at once
\* and changes nothing; otherwise version.json holds the live version before
\* anything else is done, so that it does wherever the run stops, and a next
\* run under the same live version starts with the two equal.
C10_VersionWrittenFirst ==
    /\ [](pc \in PastUpdate => versionFile = liveVersion)
    /\ [][(pc = "start" /\ versionFile = liveVersion) =>
              (pc' = "noupdate" /\ UNCHANGED <<versionFile, schemas, parsedPb2,
                                              klasses, nBlocks, files, sink>>)]_vars
    /\ [][pc = "noupdate" => pc' = "start"]_vars
    /\ [][(pc \in Stopped /\ liveVersion' = liveVersion) =>
              (pc' = "start" /\ versionFile' = liveVersion')]_vars

\* a run that wrote the new version and then died in the export loop
C10_Witness ==
    /\ pc = "crashed"
    /\ nBlocks > 0
    /\ versionFile = liveVersion

=============================================================================
